---- MODULE Spec2Model ----
(***************************************************************************)
(* Model of the Trtle PPU (src/ppu.c): the mode-timing state machine, the  *)
(* register and memory accessors, the tile cache, the line renderer and    *)
(* the export routines.                                                    *)
(*                                                                         *)
(* The machine state is one record, gb, whose fields are the fields of     *)
(* the PPU structure plus the interrupt controller's flags register.  Each *)
(* C function is an operator from a machine record to a machine record.    *)
(* Byte arrays (vram, oam, tile_buffer, display_buffer) are zero-filled    *)
(* arrays kept as finite maps from the indices holding a non-zero value.   *)
(***************************************************************************)
EXTENDS Integers, Sequences, FiniteSets, TLC

VARIABLES gb, last, line, frame, out, drawn

vars == <<gb, last, line, frame, out, drawn>>

(***************************************************************************)
(* Bit arithmetic on bytes.                                                *)
(***************************************************************************)
Bit(v, k) == (v \div (2 ^ k)) % 2

Bytes == 0 .. 255

\* a & b, bit by bit
AndBits(a, b) ==
    Bit(a, 0) * Bit(b, 0) + 2 * Bit(a, 1) * Bit(b, 1)
    + 4 * Bit(a, 2) * Bit(b, 2) + 8 * Bit(a, 3) * Bit(b, 3)
    + 16 * Bit(a, 4) * Bit(b, 4) + 32 * Bit(a, 5) * Bit(b, 5)
    + 64 * Bit(a, 6) * Bit(b, 6) + 128 * Bit(a, 7) * Bit(b, 7)

AndTable == [a \in Bytes |-> [b \in Bytes |-> AndBits(a, b)]]

And8(a, b) == AndTable[a][b]

Not8(a) == 255 - a

Or8(a, b) == a + b - And8(a, b)

\* (v & mask) != 0
Test(v, mask) == And8(v, mask) # 0

(***************************************************************************)
(* Zero-filled arrays as finite maps of their non-zero cells.              *)
(***************************************************************************)
Zeroed == << >>

Rd(m, a) == IF a \in DOMAIN m THEN m[a] ELSE 0

Wr(m, a, v) ==
    IF v = 0
    THEN [x \in (DOMAIN m) \ {a} |-> m[x]]
    ELSE [x \in (DOMAIN m) \cup {a} |-> IF x = a THEN v ELSE m[x]]

\* m with run[i] stored at base + i, for i in 0 .. n - 1
StoreRun(m, base, n, run) ==
    LET cells == base .. (base + n - 1)
        lit == {c \in cells : run[c - base] # 0}
    IN  [k \in ((DOMAIN m) \ cells) \cup lit |->
           IF k \in cells THEN run[k - base] ELSE m[k]]

(***************************************************************************)
(* Constants of src/ppu.c and src/include/trtle/gameboy.h.                 *)
(***************************************************************************)
LCDC_LCD_ENABLE_BIT == 128
LCDC_WINDOW_MAP_BIT == 64
LCDC_WINDOW_ENABLE_BIT == 32
LCDC_BG_WINDOW_MODE_BIT == 16
LCDC_BG_MAP_BIT == 8
LCDC_SPRITE_SIZE_BIT == 4
LCDC_SPRITE_ENABLE_BIT == 2
LCDC_BG_ENABLE_BIT == 1

STAT_UNUSED_BIT == 128
STAT_WRITE_BITS == 124
STAT_LY_LYC_COMPARSION_ENABLE == 64
STAT_OAM_SEARCH_CHECK_ENABLE == 32
STAT_VBLANK_CHECK_ENABLE == 16
STAT_HBLANK_CHECK_ENABLE == 8
STAT_LY_LYC_COMPARISON_SIGNAL == 4
STAT_MODE_BITS == 3

SPRITE_TO_BG_PRIORITY_BIT == 128
SPRITE_FLIP_Y_BIT == 64
SPRITE_FLIP_X_BIT == 32

PPU_HBLANK_LENGTH == 50
PPU_VBLANK_LENGTH == 114
PPU_OAM_SEARCH_LENGTH == 21
PPU_DATA_TRANSFER_LENGTH == 43

PPU_BYTES_PER_TILE == 16
PPU_BYTES_PER_ROW == 2
PPU_TS_WIDTH_IN_TILES == 16
PPU_BG_TILE_COUNT == 1024
PPU_BG_WIDTH_IN_TILES == 32
PPU_BACKGROUND1_START == 6144
PPU_BACKGROUND2_START == 7168
PPU_LCD_COLOR_CODE == 4

GAMEBOY_DISPLAY_WIDTH == 160
GAMEBOY_DISPLAY_HEIGHT == 144

(***************************************************************************)
(* Declarations of ppu.h and interrupt_controller.h, which ppu.c includes: *)
(* the mode numbers held in the two low status bits, the interrupt request *)
(* bits and the tile geometry.                                             *)
(***************************************************************************)
GRAPHICS_MODE_HBLANK == 0
GRAPHICS_MODE_VBLANK == 1
GRAPHICS_MODE_OAM_SEARCH == 2
GRAPHICS_MODE_DATA_TRANSFER == 3

VBLANK_INTERRUPT_BIT == 1
LCD_STAT_INTERRUPT_BIT == 2

PPU_PIXELS_PER_TILE_ROW == 8
PPU_ROWS_PER_TILE == 8

scx_cycle_offsets == <<0, 1, 1, 1, 1, 2, 2, 2>>

ScxOffset(g) == scx_cycle_offsets[(g.scx % 8) + 1]

ppu_get_mode(g) == And8(g.stat, STAT_MODE_BITS)

SetMode(stat, mode) == Or8(And8(stat, Not8(STAT_MODE_BITS)), mode)

(***************************************************************************)
(* flags |= bit.  raised is a history field: the call sites that requested *)
(* an interrupt during the current operation.                              *)
(***************************************************************************)
RaiseInterrupt(g, bit, site) ==
    [g EXCEPT !.flags = Or8(@, bit), !.raised = @ \cup {site}]

\* the registers as ppu_initialize sets them; it leaves the four memories to
\* the owner of the structure, taken here to hand them over zero-filled
ppu_initialize ==
    [lcdc |-> 145, stat |-> 0, scy |-> 0, scx |-> 0, ly |-> 0, lyc |-> 0,
     bgp |-> 252, obp0 |-> 255, obp1 |-> 255, wy |-> 0, wx |-> 0,
     window_internal_line |-> 0, count |-> 80,
     vram |-> Zeroed, oam |-> Zeroed, tile_buffer |-> Zeroed,
     display_buffer |-> Zeroed,
     flags |-> 0, raised |-> {}]

ppu_hblank_enter(g) ==
    [g EXCEPT !.stat = SetMode(@, GRAPHICS_MODE_HBLANK),
              !.count = @ + PPU_HBLANK_LENGTH - ScxOffset(g)]

\* an entry into VBLANK that loads one dot too few
Mutant_vblank_enter(g) ==
    LET g1 == [g EXCEPT !.stat = SetMode(@, GRAPHICS_MODE_VBLANK),
                        !.count = @ + PPU_VBLANK_LENGTH - 1,
                        !.window_internal_line = 0]
    IN  RaiseInterrupt(g1, VBLANK_INTERRUPT_BIT, "vblank")

\* an entry into VBLANK that requests the LCD-status interrupt on its own
\* enable bit only
Mutant_vblank_own_bit(g) ==
    LET g1 == [g EXCEPT !.stat = SetMode(@, GRAPHICS_MODE_VBLANK),
                        !.count = @ + PPU_VBLANK_LENGTH,
                        !.window_internal_line = 0]
        g2 == RaiseInterrupt(g1, VBLANK_INTERRUPT_BIT, "vblank")
    IN  IF Test(g2.stat, STAT_VBLANK_CHECK_ENABLE)
        THEN RaiseInterrupt(g2, LCD_STAT_INTERRUPT_BIT, "vblank_stat")
        ELSE g2

ppu_vblank_enter(g) ==
    LET g1 == [g EXCEPT !.stat = SetMode(@, GRAPHICS_MODE_VBLANK),
                        !.count = @ + PPU_VBLANK_LENGTH,
                        !.window_internal_line = 0]
        g2 == RaiseInterrupt(g1, VBLANK_INTERRUPT_BIT, "vblank")
    IN  IF Test(g2.stat, STAT_VBLANK_CHECK_ENABLE)
           \/ Test(g2.stat, STAT_OAM_SEARCH_CHECK_ENABLE)
        THEN RaiseInterrupt(g2, LCD_STAT_INTERRUPT_BIT, "vblank_stat")
        ELSE g2

ppu_oam_search_enter(g) ==
    LET g1 == [g EXCEPT !.stat = SetMode(@, GRAPHICS_MODE_OAM_SEARCH),
                        !.count = @ + PPU_OAM_SEARCH_LENGTH]
    IN  IF Test(g1.stat, STAT_OAM_SEARCH_CHECK_ENABLE)
        THEN RaiseInterrupt(g1, LCD_STAT_INTERRUPT_BIT, "oam_search")
        ELSE g1

ppu_data_transfer_enter(g) ==
    [g EXCEPT !.stat = SetMode(@, GRAPHICS_MODE_DATA_TRANSFER),
              !.count = @ + PPU_DATA_TRANSFER_LENGTH + ScxOffset(g)]

ppu_compare_ly_lyc(g) ==
    IF g.ly # g.lyc
    THEN [g EXCEPT !.stat = And8(@, Not8(STAT_LY_LYC_COMPARISON_SIGNAL))]
    ELSE LET g1 == [g EXCEPT !.stat = Or8(@, STAT_LY_LYC_COMPARISON_SIGNAL)]
         IN  IF Test(g1.stat, STAT_LY_LYC_COMPARSION_ENABLE)
             THEN RaiseInterrupt(g1, LCD_STAT_INTERRUPT_BIT, "ly_lyc")
             ELSE g1

(***************************************************************************)
(* ppu_draw_line: one row of the display buffer, composited from the       *)
(* background, the window and the sprites.                                 *)
(***************************************************************************)
Columns == 0 .. (GAMEBOY_DISPLAY_WIDTH - 1)

\* tile_id = (lcdc & LCDC_BG_WINDOW_MODE_BIT) ? tile_id : tile_id + 256 * (tile_id < 128)
TileId(g, raw) ==
    IF Test(g.lcdc, LCDC_BG_WINDOW_MODE_BIT) THEN raw
    ELSE raw + 256 * (IF raw < 128 THEN 1 ELSE 0)

\* tile_buffer[tile][row][pixel]
TilePixel(g, tile, row, pixel) ==
    Rd(g.tile_buffer,
       (tile * PPU_ROWS_PER_TILE + row) * PPU_PIXELS_PER_TILE_ROW + pixel)

\* offset = color * 2; bits = 0b11 << offset; (palette & bits) >> offset
PaletteShade(palette, color) ==
    LET offset == color * 2
        bits   == (3 * (2 ^ offset)) % 256
    IN  And8(palette, bits) \div (2 ^ offset)

DrawBackground(g, row) ==
    IF ~Test(g.lcdc, LCDC_BG_ENABLE_BIT) THEN row
    ELSE
      LET background_row == (g.scy + g.ly) % 256
          map_offset == IF Test(g.lcdc, LCDC_BG_MAP_BIT)
                        THEN PPU_BACKGROUND2_START ELSE PPU_BACKGROUND1_START
      IN  [i \in Columns |->
             LET background_column == (g.scx + i) % 256
                 tile_id == TileId(g, Rd(g.vram, map_offset
                                + (background_column \div 8)
                                + (background_row \div 8) * PPU_BG_WIDTH_IN_TILES))
                 color == TilePixel(g, tile_id, background_row % 8,
                                    background_column % 8)
             IN  PaletteShade(g.bgp, color)]

WindowVisible(g) ==
    /\ Test(g.lcdc, LCDC_WINDOW_ENABLE_BIT)
    /\ g.wy <= g.ly
    /\ g.wx - 7 <= 166

\* the row after the window loop; wx is the uint8_t g.wx - 7
DrawWindow(g, row) ==
    IF ~WindowVisible(g) THEN row
    ELSE
      LET wx == (g.wx - 7) % 256
          map_offset == IF Test(g.lcdc, LCDC_WINDOW_MAP_BIT)
                        THEN PPU_BACKGROUND2_START ELSE PPU_BACKGROUND1_START
      IN  [i \in Columns |->
             IF i < wx THEN row[i]
             ELSE
               LET scrolled == (g.scx + i) % 256
                   window_column == IF scrolled >= wx THEN i - wx ELSE scrolled
                   tile_id == TileId(g, Rd(g.vram, map_offset
                                  + (window_column \div 8)
                                  + (g.window_internal_line \div 8)
                                    * PPU_BG_WIDTH_IN_TILES))
                   color == TilePixel(g, tile_id, g.window_internal_line % 8,
                                      window_column % 8)
               IN  PaletteShade(g.bgp, color)]

SpriteSize(g) == IF Test(g.lcdc, LCDC_SPRITE_SIZE_BIT) THEN 16 ELSE 8

\* a first loop that stops one entry later, at 11
RECURSIVE Mutant_SelectSprites(_, _, _)
Mutant_SelectSprites(g, i, sprites) ==
    IF i = 40 THEN sprites
    ELSE
      LET sprite_y == Rd(g.oam, i * 4) - 16
      IN  IF sprite_y <= g.ly /\ (g.ly - sprite_y) < SpriteSize(g)
          THEN LET taken == Append(sprites,
                              <<Rd(g.oam, i * 4), Rd(g.oam, i * 4 + 1),
                                Rd(g.oam, i * 4 + 2), Rd(g.oam, i * 4 + 3)>>)
               IN  IF Len(taken) = 11 THEN taken
                   ELSE Mutant_SelectSprites(g, i + 1, taken)
          ELSE Mutant_SelectSprites(g, i + 1, sprites)

\* the first loop: up to 10 entries whose vertical span covers ly, in oam order
RECURSIVE SelectSprites(_, _, _)
SelectSprites(g, i, sprites) ==
    IF i = 40 THEN sprites
    ELSE
      LET sprite_y == Rd(g.oam, i * 4) - 16
      IN  IF sprite_y <= g.ly /\ (g.ly - sprite_y) < SpriteSize(g)
          THEN LET taken == Append(sprites,
                              <<Rd(g.oam, i * 4), Rd(g.oam, i * 4 + 1),
                                Rd(g.oam, i * 4 + 2), Rd(g.oam, i * 4 + 3)>>)
               IN  IF Len(taken) = 10 THEN taken
                   ELSE SelectSprites(g, i + 1, taken)
          ELSE SelectSprites(g, i + 1, sprites)

\* the inner loop of the sort: the index of the least X among sprites[k..],
\* the earliest such one, starting from sprite_min_x
RECURSIVE SpriteMinX(_, _, _)
SpriteMinX(sprites, k, sprite_min_x) ==
    IF k > Len(sprites) THEN sprite_min_x
    ELSE SpriteMinX(sprites, k + 1,
                    IF sprites[k][2] < sprites[sprite_min_x][2]
                    THEN k ELSE sprite_min_x)

\* the sort: a selection sort that swaps entry i with the least of the rest
RECURSIVE SortSprites(_, _)
SortSprites(sprites, i) ==
    IF i >= Len(sprites) THEN sprites
    ELSE
      LET sprite_min_x == SpriteMinX(sprites, i + 1, i)
          swapped == IF sprite_min_x # i
                     THEN [sprites EXCEPT ![i] = sprites[sprite_min_x],
                                          ![sprite_min_x] = sprites[i]]
                     ELSE sprites
      IN  SortSprites(swapped, i + 1)

\* the body of the last loop for one sprite
DrawSprite(g, sprite, row) ==
    LET sprite_y == sprite[1] - 16
        sprite_x == sprite[2] - 8
        sprite_t == sprite[3]
        sprite_a == sprite[4]
        flip_x   == Test(sprite_a, SPRITE_FLIP_X_BIT)
        priority == Test(sprite_a, SPRITE_TO_BG_PRIORITY_BIT)
        tile0    == IF SpriteSize(g) = 16 THEN And8(sprite_t, 254) ELSE sprite_t
        row0     == IF Test(sprite_a, SPRITE_FLIP_Y_BIT)
                    THEN (SpriteSize(g) - 1 - (g.ly - sprite_y)) % 256
                    ELSE (g.ly - sprite_y) % 256
        tile_id  == IF row0 >= 8 THEN tile0 + 1 ELSE tile0
        tile_row == IF row0 >= 8 THEN row0 - 8 ELSE row0
        palette  == IF Bit(sprite_a, 4) = 1 THEN g.obp1 ELSE g.obp0
    IN  [i \in Columns |->
           IF i - sprite_x \notin 0 .. 7 THEN row[i]
           ELSE
             LET tile_column == i - sprite_x
                 color == TilePixel(g, tile_id, And8(tile_row, 7),
                             IF flip_x THEN 7 - tile_column ELSE tile_column)
             IN  IF color # 0 /\ (~priority \/ row[i] = 0)
                 THEN PaletteShade(palette, color)
                 ELSE row[i]]

\* the last loop: i from sprite_count down to 1
RECURSIVE DrawSprites(_, _, _, _)
DrawSprites(g, sprites, i, row) ==
    IF i = 0 THEN row
    ELSE DrawSprites(g, sprites, i - 1, DrawSprite(g, sprites[i], row))

SortedSprites(g) == SortSprites(SelectSprites(g, 0, << >>), 1)

DrawSpriteLayer(g, row) ==
    IF ~Test(g.lcdc, LCDC_SPRITE_ENABLE_BIT) THEN row
    ELSE LET sprites == SortedSprites(g)
         IN  DrawSprites(g, sprites, Len(sprites), row)

\* row ly of the display buffer
DisplayRow(g) ==
    [i \in Columns |-> Rd(g.display_buffer, i + g.ly * GAMEBOY_DISPLAY_WIDTH)]

StoreRow(display_buffer, ly, row) ==
    StoreRun(display_buffer, ly * GAMEBOY_DISPLAY_WIDTH, GAMEBOY_DISPLAY_WIDTH, row)

ppu_draw_line(g) ==
    LET bg  == DrawBackground(g, DisplayRow(g))
        win == DrawWindow(g, bg)
        g1  == IF WindowVisible(g)
               THEN [g EXCEPT !.window_internal_line = @ + 1] ELSE g
        spr == DrawSpriteLayer(g1, win)
    IN  [g1 EXCEPT !.display_buffer = StoreRow(@, g.ly, spr)]

(***************************************************************************)
(* ppu_cycle: one dot.                                                     *)
(***************************************************************************)
\* a request made when the counter reaches 0 instead of 1
Mutant_hblank_request(g) ==
    IF g.count = 0
       /\ ppu_get_mode(g) = GRAPHICS_MODE_DATA_TRANSFER
       /\ Test(g.stat, STAT_HBLANK_CHECK_ENABLE)
    THEN RaiseInterrupt(g, LCD_STAT_INTERRUPT_BIT, "hblank")
    ELSE g

\* the early HBLANK request, after the decrement
HblankRequest(g) ==
    IF g.count = 1
       /\ ppu_get_mode(g) = GRAPHICS_MODE_DATA_TRANSFER
       /\ Test(g.stat, STAT_HBLANK_CHECK_ENABLE)
    THEN RaiseInterrupt(g, LCD_STAT_INTERRUPT_BIT, "hblank")
    ELSE g

\* the switch on the mode, taken when the counter reaches 0
ModeTransition(g) ==
    LET mode == ppu_get_mode(g)
    IN  IF mode = GRAPHICS_MODE_HBLANK
        THEN LET g3 == [g EXCEPT !.ly = @ + 1]
             IN  ppu_compare_ly_lyc(IF g3.ly < 144
                                    THEN ppu_oam_search_enter(g3)
                                    ELSE ppu_vblank_enter(g3))
        ELSE IF mode = GRAPHICS_MODE_VBLANK
        THEN LET g3 == [g EXCEPT !.ly = @ + 1]
             IN  ppu_compare_ly_lyc(
                     IF g3.ly > 153
                     THEN ppu_oam_search_enter([g3 EXCEPT !.ly = 0])
                     ELSE [g3 EXCEPT !.count = @ + PPU_VBLANK_LENGTH])
        ELSE IF mode = GRAPHICS_MODE_OAM_SEARCH
        THEN ppu_data_transfer_enter(g)
        ELSE ppu_hblank_enter(ppu_draw_line(g))

\* a dot that does not look at the LCD-enable bit
Mutant_cycle(g) ==
    LET g2 == HblankRequest([g EXCEPT !.count = @ - 1])
    IN  IF g2.count # 0 THEN g2 ELSE ModeTransition(g2)

ppu_cycle(g) ==
    IF ~Test(g.lcdc, LCDC_LCD_ENABLE_BIT) THEN g
    ELSE
      LET g2 == HblankRequest([g EXCEPT !.count = @ - 1])
      IN  IF g2.count # 0 THEN g2 ELSE ModeTransition(g2)

(***************************************************************************)
(* Bus accessors.                                                          *)
(***************************************************************************)
\* a disable that loads the counter as a mode entry would
Mutant_write_lcdc(g, value) ==
    LET g1 == IF ~Test(value, LCDC_LCD_ENABLE_BIT)
              THEN [g EXCEPT !.ly = 0, !.count = PPU_VBLANK_LENGTH,
                             !.stat = And8(@, 252)]
              ELSE g
    IN  [g1 EXCEPT !.lcdc = value]

\* a disable that also zeroes the window-line counter
Mutant_lcdc_resets_window(g, value) ==
    LET g1 == IF ~Test(value, LCDC_LCD_ENABLE_BIT)
              THEN [g EXCEPT !.ly = 0, !.count = 115,
                             !.stat = And8(@, 252),
                             !.window_internal_line = 0]
              ELSE g
    IN  [g1 EXCEPT !.lcdc = value]

\* a disable that leaves the mode bits as they are
Mutant_lcdc_keeps_mode(g, value) ==
    LET g1 == IF ~Test(value, LCDC_LCD_ENABLE_BIT)
              THEN [g EXCEPT !.ly = 0, !.count = 115]
              ELSE g
    IN  [g1 EXCEPT !.lcdc = value]

ppu_write_lcdc(g, value) ==
    LET g1 == IF ~Test(value, LCDC_LCD_ENABLE_BIT)
              THEN [g EXCEPT !.ly = 0, !.count = 115,
                             !.stat = And8(@, 252)]
              ELSE g
    IN  [g1 EXCEPT !.lcdc = value]

ppu_read_stat(g) == Or8(g.stat, STAT_UNUSED_BIT)

ppu_write_stat(g, value) ==
    [g EXCEPT !.stat = Or8(And8(@, Not8(STAT_WRITE_BITS)),
                           And8(value, STAT_WRITE_BITS))]

ppu_read_oam(g, address) == Rd(g.oam, address)

\* a write gated in DATA_TRANSFER only
Mutant_write_oam(g, address, value) ==
    IF ppu_get_mode(g) = GRAPHICS_MODE_DATA_TRANSFER THEN g
    ELSE [g EXCEPT !.oam = Wr(@, address, value)]

ppu_write_oam(g, address, value) ==
    IF ppu_get_mode(g) = GRAPHICS_MODE_DATA_TRANSFER THEN g
    ELSE IF ppu_get_mode(g) = GRAPHICS_MODE_OAM_SEARCH THEN g
    ELSE [g EXCEPT !.oam = Wr(@, address, value)]

ppu_read_vram(g, address) == Rd(g.vram, address)

\* a write that decodes the row from the written address and the next one
Mutant_write_vram(g, address, value) ==
    LET vram  == Wr(g.vram, address, value)
        byte1 == Rd(vram, address)
        byte2 == Rd(vram, address + 1)
        tile  == address \div PPU_BYTES_PER_TILE
        row   == (address % PPU_BYTES_PER_TILE) \div PPU_BYTES_PER_ROW
        codes == [pixel \in 0 .. (PPU_PIXELS_PER_TILE_ROW - 1) |->
                    Bit(byte1, 7 - pixel) + 2 * Bit(byte2, 7 - pixel)]
    IN  IF address < 6144
        THEN [g EXCEPT !.vram = vram,
                       !.tile_buffer = StoreRun(@,
                           (tile * PPU_ROWS_PER_TILE + row) * PPU_PIXELS_PER_TILE_ROW,
                           PPU_PIXELS_PER_TILE_ROW, codes)]
        ELSE [g EXCEPT !.vram = vram]

ppu_write_vram(g, address, value) ==
    LET vram  == Wr(g.vram, address, value)
        pair  == address - (address % 2)
        byte1 == Rd(vram, pair)
        byte2 == Rd(vram, pair + 1)
        tile  == address \div PPU_BYTES_PER_TILE
        row   == (address % PPU_BYTES_PER_TILE) \div PPU_BYTES_PER_ROW
        codes == [pixel \in 0 .. (PPU_PIXELS_PER_TILE_ROW - 1) |->
                    LET mask == 2 ^ (7 - pixel)
                        bit1 == Test(byte1, mask)
                        bit2 == Test(byte2, mask)
                    IN  IF bit1 THEN (IF bit2 THEN 3 ELSE 1)
                        ELSE (IF bit2 THEN 2 ELSE 0)]
    IN  IF address < 6144
        THEN [g EXCEPT !.vram = vram,
                       !.tile_buffer = StoreRun(@,
                           (tile * PPU_ROWS_PER_TILE + row) * PPU_PIXELS_PER_TILE_ROW,
                           PPU_PIXELS_PER_TILE_ROW, codes)]
        ELSE [g EXCEPT !.vram = vram]

(***************************************************************************)
(* The export routines.  A 32-bit colour is the pair of its 16-bit halves. *)
(* Each routine is its loop nest: iteration k stores at the index the loop *)
(* computes, and the routine returns from the iteration whose index equals *)
(* length.                                                                 *)
(***************************************************************************)
PPU_DISPLAY_WIDTH == 160
PPU_DISPLAY_HEIGHT == 144
PPU_BG_WIDTH_IN_PIXELS == 256
PPU_BG_HEIGHT_IN_PIXELS == 256
PPU_TS_TILE_COUNT == 384
PPU_TS_WIDTH_IN_PIXELS == 128
PPU_TS_HEIGHT_IN_PIXELS == 192

get_pixel_color(color_code) ==
    CASE color_code = 0 -> <<62965, 62965>>
      [] color_code = 1 -> <<43690, 43690>>
      [] color_code = 2 -> <<21845, 21845>>
      [] color_code = 3 -> <<257, 257>>
      [] color_code = 4 -> <<0, 0>>
      [] OTHER -> <<255, 255>>

\* the iteration that returns early, the last one if none does: index[k] is
\* the destination index of iteration k of the count iterations
LastIteration(index, count, length) ==
    IF \E k \in 0 .. (count - 1) : index[k] = length
    THEN CHOOSE k \in 0 .. (count - 1) :
            /\ index[k] = length
            /\ \A j \in 0 .. (k - 1) : index[j] # length
    ELSE count - 1

\* stores: the <<index, element>> pairs the iterations store
Exported(index, value, count, length, full) ==
    LET stop == LastIteration(index, count, length)
    IN  [stores |-> {<<index[k], value[k]>> : k \in 0 .. stop},
         ret |-> IF index[stop] = length THEN length ELSE full]

ppu_get_display_data(g, length) ==
    LET count == PPU_DISPLAY_WIDTH * PPU_DISPLAY_HEIGHT
        index == [x \in 0 .. (count - 1) |-> x]
        value == [x \in 0 .. (count - 1) |->
                    IF Test(g.lcdc, LCDC_LCD_ENABLE_BIT)
                    THEN get_pixel_color(Rd(g.display_buffer, x))
                    ELSE get_pixel_color(PPU_LCD_COLOR_CODE)]
    IN  Exported(index, value, count, length,
                 PPU_DISPLAY_WIDTH * PPU_DISPLAY_HEIGHT)

\* iteration k of a tile, row, pixel loop nest
LoopTile(k) == k \div (PPU_ROWS_PER_TILE * PPU_PIXELS_PER_TILE_ROW)
LoopRow(k) == (k \div PPU_PIXELS_PER_TILE_ROW) % PPU_ROWS_PER_TILE
LoopPixel(k) == k % PPU_PIXELS_PER_TILE_ROW

ppu_get_background_data(g, length) ==
    LET count == PPU_BG_TILE_COUNT * PPU_ROWS_PER_TILE * PPU_PIXELS_PER_TILE_ROW
        y(k) == (LoopTile(k) \div PPU_BG_WIDTH_IN_TILES) * PPU_PIXELS_PER_TILE_ROW
                + LoopRow(k)
        x(k) == (LoopTile(k) % PPU_BG_WIDTH_IN_TILES) * PPU_PIXELS_PER_TILE_ROW
                + LoopPixel(k)
        index == [k \in 0 .. (count - 1) |->
                    x(k) + y(k) * PPU_BG_WIDTH_IN_PIXELS]
        value == [k \in 0 .. (count - 1) |->
                    TilePixel(g, TileId(g, Rd(g.vram, PPU_BACKGROUND1_START
                                                      + LoopTile(k))),
                              LoopRow(k), LoopPixel(k))]
    IN  Exported(index, value, count, length,
                 PPU_BG_WIDTH_IN_PIXELS * PPU_BG_HEIGHT_IN_PIXELS)

ppu_get_tileset_data(g, length) ==
    LET count == PPU_TS_TILE_COUNT * PPU_ROWS_PER_TILE * PPU_PIXELS_PER_TILE_ROW
        y(k) == (LoopTile(k) \div PPU_TS_WIDTH_IN_TILES) * PPU_PIXELS_PER_TILE_ROW
                + LoopRow(k)
        x(k) == (LoopTile(k) % PPU_TS_WIDTH_IN_TILES) * PPU_PIXELS_PER_TILE_ROW
                + LoopPixel(k)
        index == [k \in 0 .. (count - 1) |->
                    x(k) + y(k) * PPU_TS_WIDTH_IN_PIXELS]
        value == [k \in 0 .. (count - 1) |->
                    TilePixel(g, LoopTile(k), LoopRow(k), LoopPixel(k))]
    IN  Exported(index, value, count, length,
                 PPU_TS_WIDTH_IN_PIXELS * PPU_TS_HEIGHT_IN_PIXELS)

\* the compare and scroll-X registers are stored by the bus with no side effect
write_lyc(g, value) == [g EXCEPT !.lyc = value]

write_scx(g, value) == [g EXCEPT !.scx = value]

\* so are the two object palettes
write_obp(g, obp0, obp1) == [g EXCEPT !.obp0 = obp0, !.obp1 = obp1]

\* and the background palette, the window position and the scroll registers
write_bgp(g, value) == [g EXCEPT !.bgp = value]

write_window(g, wy, wx) == [g EXCEPT !.wy = wy, !.wx = wx]

write_scroll(g, scy, scx) == [g EXCEPT !.scy = scy, !.scx = scx]

(***************************************************************************)
(* History variables.  last: the write to the control register or to a     *)
(* memory that produced the state, its argument and what it found (NoLast  *)
(* after any other operation).  line: dots counted since the entry into *)
(* OAM_SEARCH (-1 outside a measured line) and the length of the last      *)
(* completed line.  frame: dots counted since the last entry into VBLANK   *)
(* while the LCD stayed enabled and scroll-X stayed a multiple of 8        *)
(* (clean), and the gap measured at the last entry into VBLANK.  line and  *)
(* frame count only in the specifications that switch them on.  out: the   *)
(* last export: the routine, the maximum element count it was given, the   *)
(* <<index, element>> pairs it stored and what it returned.  drawn: the    *)
(* scanlines the line renderer was called for since the frame began (at    *)
(* initialization, at an LCD enable or at the wrap from scanline 153), in  *)
(* the order of the calls, where switched on.                              *)
(***************************************************************************)
\* the interrupt controller dispatches the pending requests and clears them
interrupt_dispatch(g) == [g EXCEPT !.flags = 0]

\* the machine as an operation finds it: earlier requests dispatched, and no
\* request made by this operation yet
Began(g) == [interrupt_dispatch(g) EXCEPT !.raised = {}]

NoOut == [routine |-> "none", length |-> 0, stores |-> {}, ret |-> 0]

NoLast == [op |-> "none", arg |-> << >>, pre |-> << >>]

LcdOn(g) == Test(g.lcdc, LCDC_LCD_ENABLE_BIT)

\* the step from g to h incremented the scanline index (or wrapped it to 0)
LineAdvanced(g, h) == h.ly # g.ly

EntersMode(g, h, mode) == ppu_get_mode(g) # mode /\ ppu_get_mode(h) = mode

LineAfterCycle(g, h) ==
    IF ~line.on \/ ~LcdOn(g) THEN line
    ELSE LET len == IF LineAdvanced(g, h) /\ line.dots >= 0
                    THEN line.dots + 1 ELSE 0
         IN  IF EntersMode(g, h, GRAPHICS_MODE_OAM_SEARCH)
             THEN [on |-> TRUE, dots |-> 0, len |-> len]
             ELSE IF LineAdvanced(g, h) THEN [on |-> TRUE, dots |-> -1, len |-> len]
             ELSE IF line.dots >= 0 THEN [on |-> TRUE, dots |-> line.dots + 1, len |-> len]
             ELSE [on |-> TRUE, dots |-> -1, len |-> len]

FrameAfterCycle(g, h) ==
    IF ~frame.on \/ ~LcdOn(g) THEN frame
    ELSE IF EntersMode(g, h, GRAPHICS_MODE_VBLANK)
    THEN [on |-> TRUE, dots |-> 0, clean |-> (h.scx % 8 = 0),
          gap |-> IF frame.clean THEN frame.dots + 1 ELSE 0]
    ELSE IF frame.clean THEN [frame EXCEPT !.dots = @ + 1]
    ELSE frame

Dirty(f) == [f EXCEPT !.dots = 0, !.clean = FALSE]

LineOff == [on |-> FALSE, dots |-> -1, len |-> 0]
LineOn == [on |-> TRUE, dots |-> -1, len |-> 0]
FrameOff == [on |-> FALSE, dots |-> 0, clean |-> FALSE, gap |-> 0]
FrameOn == [on |-> TRUE, dots |-> 0, clean |-> FALSE, gap |-> 0]

\* the dot on which ppu_cycle calls ppu_draw_line: the DATA_TRANSFER case of
\* its switch, which leaves the machine in HBLANK
Renders(g, h) ==
    /\ LcdOn(g)
    /\ ppu_get_mode(g) = GRAPHICS_MODE_DATA_TRANSFER
    /\ ppu_get_mode(h) = GRAPHICS_MODE_HBLANK

\* a frame begins at scanline 0: here, at the wrap from scanline 153
DrawnAfterCycle(g, h) ==
    IF ~drawn.on \/ ~LcdOn(g) THEN drawn
    ELSE IF Renders(g, h) THEN [drawn EXCEPT !.lines = Append(@, g.ly)]
    ELSE IF LineAdvanced(g, h) /\ h.ly = 0 THEN [drawn EXCEPT !.lines = << >>]
    ELSE drawn

DrawnOff == [on |-> FALSE, lines |-> << >>]
DrawnOn == [on |-> TRUE, lines |-> << >>]

(***************************************************************************)
(* Operations.                                                             *)
(***************************************************************************)
Cycle ==
    /\ gb' = ppu_cycle(Began(gb))
    /\ last' = NoLast
    /\ line' = LineAfterCycle(gb, gb')
    /\ frame' = FrameAfterCycle(gb, gb')
    /\ drawn' = DrawnAfterCycle(gb, gb')
    /\ UNCHANGED out

WriteLcdc(value) ==
    /\ gb' = ppu_write_lcdc(Began(gb), value)
    /\ last' = [op |-> "write_lcdc", arg |-> <<value>>,
                pre |-> <<ppu_get_mode(gb), gb.ly>>]
    /\ line' = IF LcdOn(gb') THEN line ELSE [line EXCEPT !.dots = -1, !.len = 0]
    /\ frame' = IF LcdOn(gb') THEN frame ELSE Dirty(frame)
    /\ drawn' = IF LcdOn(gb) /\ LcdOn(gb') THEN drawn
                ELSE [drawn EXCEPT !.lines = << >>]
    /\ UNCHANGED out

WriteStat(value) ==
    /\ gb' = ppu_write_stat(Began(gb), value)
    /\ last' = NoLast
    /\ UNCHANGED <<line, frame, out, drawn>>

WriteLyc(value) ==
    /\ gb' = write_lyc(Began(gb), value)
    /\ last' = NoLast
    /\ UNCHANGED <<line, frame, out, drawn>>

WriteScx(value) ==
    /\ gb' = write_scx(Began(gb), value)
    /\ last' = NoLast
    /\ frame' = IF value % 8 = 0 THEN frame ELSE Dirty(frame)
    /\ UNCHANGED <<line, out, drawn>>

WriteOam(address, value) ==
    /\ gb' = ppu_write_oam(Began(gb), address, value)
    /\ last' = [op |-> "write_oam", arg |-> <<address, value>>, 
                pre |-> <<Rd(gb.oam, address)>>]
    /\ UNCHANGED <<line, frame, out, drawn>>

WriteVram(address, value) ==
    /\ gb' = ppu_write_vram(Began(gb), address, value)
    /\ last' = [op |-> "write_vram", arg |-> <<address, value>>,
                pre |-> <<Rd(gb.vram, address)>>]
    /\ UNCHANGED <<line, frame, out, drawn>>

ExportDisplay(length) ==
    /\ out = NoOut
    /\ out' = [routine |-> "display", length |-> length]
                @@ ppu_get_display_data(gb, length)
    /\ UNCHANGED <<gb, last, line, frame, drawn>>

ExportBackground(length) ==
    /\ out = NoOut
    /\ out' = [routine |-> "background", length |-> length]
                @@ ppu_get_background_data(gb, length)
    /\ UNCHANGED <<gb, last, line, frame, drawn>>

ExportTileset(length) ==
    /\ out = NoOut
    /\ out' = [routine |-> "tileset", length |-> length]
                @@ ppu_get_tileset_data(gb, length)
    /\ UNCHANGED <<gb, last, line, frame, drawn>>

Init ==
    /\ gb = ppu_initialize
    /\ last = NoLast
    /\ line = LineOff
    /\ frame = FrameOff
    /\ out = NoOut
    /\ drawn = DrawnOff

(***************************************************************************)
(* Spec: the timing state machine driven dot by dot, with bus writes to    *)
(* the control, status and compare registers at any dot.                   *)
(***************************************************************************)
LcdcValues == {145, 17}
StatValues == {0, 68}
LycValues == {0, 2, 150}

Next ==
    \/ Cycle
    \/ \E value \in LcdcValues : WriteLcdc(value)
    \/ \E value \in StatValues : WriteStat(value)
    \/ \E value \in LycValues : WriteLyc(value)

Spec == Init /\ [][Next]_vars

(***************************************************************************)
(* Claims settled under Spec.                                              *)
(***************************************************************************)
Coincidence(g) == g.ly = g.lyc

CoincidenceFlag(g) == Test(g.stat, STAT_LY_LYC_COMPARISON_SIGNAL)

\* C1: in every reachable state the coincidence flag (status bit 2) is set
\* if and only if the scanline index equals the compare register.
C1_FlagIsCoincidence == CoincidenceFlag(gb) <=> Coincidence(gb)

\* C2: a bus write to the status register leaves the two mode bits and the
\* coincidence-flag bit (bits 0-2) as they were, for every written value.
C2_StatWriteKeepsLowBits ==
    \A value \in StatValues :
       And8(ppu_write_stat(Began(gb), value).stat, 7) = And8(gb.stat, 7)

\* C3: a control-register write with the LCD-enable bit clear leaves, in the
\* same step, scanline index 0, mode bits 0 and dot counter 115, and every
\* other status bit as it was.  Stated of the write applied to every
\* reachable state, and of the state the last write left.
C3_LcdDisableResets ==
    /\ \A value \in {v \in LcdcValues : ~Test(v, LCDC_LCD_ENABLE_BIT)} :
          LET written == ppu_write_lcdc(Began(gb), value)
          IN  /\ written.ly = 0
              /\ ppu_get_mode(written) = 0
              /\ written.count = 115
              /\ And8(written.stat, 252) = And8(gb.stat, 252)
              /\ written.lcdc = value
    /\ (last.op = "write_lcdc" /\ ~Test(last.arg[1], LCDC_LCD_ENABLE_BIT)) =>
          /\ gb.ly = 0
          /\ ppu_get_mode(gb) = 0
          /\ gb.count = 115
          /\ ~LcdOn(gb)

\* C3 witness: the LCD was switched off in VBLANK on line 150 with the
\* coincidence enable and flag bits set, and the reset values are in place.
C3_Witness ==
    /\ last.op = "write_lcdc"
    /\ ~Test(last.arg[1], LCDC_LCD_ENABLE_BIT)
    /\ last.pre = <<GRAPHICS_MODE_VBLANK, 150>>
    /\ gb.ly = 0 /\ gb.count = 115 /\ gb.stat = 68

\* C6: the coincidence check requests the LCD-status interrupt on exactly
\* the steps on which scanline = compare turns from false to true while the
\* coincidence-enable bit is set, whatever made it turn true.
CoincidenceRose ==
    /\ ~Coincidence(gb)
    /\ Coincidence(gb')
    /\ Test(gb'.stat, STAT_LY_LYC_COMPARSION_ENABLE)

C6_CoincidenceInterruptOnRise ==
    [][("ly_lyc" \in gb'.raised) <=> CoincidenceRose]_vars

(***************************************************************************)
(* SpecScx: the timing state machine with bus writes to scroll-X and to    *)
(* the control register at any dot, and the line and frame counters on.    *)
(***************************************************************************)
ScxValues == {0, 8, 5}

InitScx ==
    /\ gb = ppu_initialize
    /\ last = NoLast
    /\ line = LineOn
    /\ frame = FrameOn
    /\ out = NoOut
    /\ drawn = DrawnOff

NextScx ==
    \/ Cycle
    \/ \E value \in ScxValues : WriteScx(value)
    \/ \E value \in LcdcValues : WriteLcdc(value)

SpecScx == InitScx /\ [][NextScx]_vars

\* C4: with the LCD enabled, every visible scanline lasts exactly 114 dots
\* from the step that enters OAM_SEARCH to the step that increments the
\* scanline index, whatever scroll-X is and whenever the bus rewrites it.
C4_LineIs114 == line.len # 0 => line.len = 114

\* the dots elapsed since the entry into VBLANK in a frame of 10 VBLANK lines
\* followed by 144 visible lines, each of 114 dots
FramePosition(g) ==
    LET mode == ppu_get_mode(g)
    IN  IF mode = GRAPHICS_MODE_VBLANK
        THEN (g.ly - 144) * 114 + (114 - g.count)
        ELSE 10 * 114 + g.ly * 114 + 114
             - (IF mode = GRAPHICS_MODE_OAM_SEARCH THEN g.count + 43 + 50
                ELSE IF mode = GRAPHICS_MODE_DATA_TRANSFER THEN g.count + 50
                ELSE g.count)

\* C5: with the LCD continuously enabled and scroll-X mod 8 = 0 throughout,
\* two consecutive entries into VBLANK are exactly 17556 dots apart: 10
\* VBLANK lines of 114 dots (scanlines 144..153), the wrap to scanline 0 with
\* the entry into OAM_SEARCH, then 144 visible lines of 114 dots.
C5_FrameIs17556 ==
    /\ frame.gap # 0 => frame.gap = 17556
    /\ frame.clean =>
         /\ frame.dots = FramePosition(gb)
         /\ frame.dots < 17556
         /\ (frame.dots < 1140 <=> ppu_get_mode(gb) = GRAPHICS_MODE_VBLANK)
         /\ (frame.dots = 1140 =>
               gb.ly = 0 /\ ppu_get_mode(gb) = GRAPHICS_MODE_OAM_SEARCH)

\* C5 witness: an entry into VBLANK that closed a whole frame run with the
\* LCD on and scroll-X a non-zero multiple of 8.
C5_Witness ==
    /\ frame.gap = 17556
    /\ frame.dots = 0
    /\ gb.ly = 144
    /\ gb.scx = 8
    /\ ppu_get_mode(gb) = GRAPHICS_MODE_VBLANK

(***************************************************************************)
(* SpecOam: the timing state machine with bus writes to object memory and  *)
(* to the control register at any dot.                                     *)
(***************************************************************************)
OamAddresses == {0, 159}
OamValues == {0, 7}
OamCells == 0 .. 159

NextOam ==
    \/ Cycle
    \/ \E address \in OamAddresses, value \in OamValues : WriteOam(address, value)
    \/ \E value \in LcdcValues : WriteLcdc(value)

SpecOam == Init /\ [][NextOam]_vars

OamGated(g) ==
    ppu_get_mode(g) \in {GRAPHICS_MODE_OAM_SEARCH, GRAPHICS_MODE_DATA_TRANSFER}

\* the cells in which two zero-filled arrays differ (a cell outside both
\* domains holds 0 in both)
Differing(m1, m2) ==
    {cell \in (DOMAIN m1) \cup (DOMAIN m2) : Rd(m1, cell) # Rd(m2, cell)}

\* C7: an object-memory write in OAM_SEARCH or DATA_TRANSFER changes none of
\* the 160 bytes (and nothing else); in HBLANK or VBLANK, which includes
\* every state with the LCD off, it stores the value at the addressed byte
\* and changes no other byte.  Stated of the write applied to every
\* reachable state, and of the state the last write left.
C7_OamWriteGated ==
    /\ ~LcdOn(gb) => ~OamGated(gb)
    /\ \A address \in OamAddresses, value \in OamValues :
          LET written == ppu_write_oam(Began(gb), address, value)
          IN  /\ OamGated(gb) => written = Began(gb)
              /\ ~OamGated(gb) =>
                   /\ Rd(written.oam, address) = value
                   /\ Differing(written.oam, gb.oam) \subseteq {address}
                   /\ DOMAIN written.oam \subseteq OamCells
                   /\ written = [Began(gb) EXCEPT !.oam = written.oam]
    /\ last.op = "write_oam" =>
          Rd(gb.oam, last.arg[1]) =
             IF OamGated(gb) THEN last.pre[1] ELSE last.arg[2]

\* C7 witness: a write of 7 to byte 0 was dropped in DATA_TRANSFER, while
\* byte 159 holds the 7 that an earlier write stored.
C7_Witness ==
    /\ last = [op |-> "write_oam", arg |-> <<0, 7>>, pre |-> <<0>>]
    /\ ppu_get_mode(gb) = GRAPHICS_MODE_DATA_TRANSFER
    /\ Rd(gb.oam, 0) = 0
    /\ Rd(gb.oam, 159) = 7

(***************************************************************************)
(* SpecVram: bus writes to video memory, in any order, to a machine that   *)
(* the bus finds in any of the modes.  The machine starts zeroed, as       *)
(* initialized and then driven for one of StartDots dots.                  *)
(***************************************************************************)
RECURSIVE Driven(_, _)
Driven(g, dots) ==
    IF dots = 0 THEN g
    ELSE IF dots = 1 THEN ppu_cycle(Began(g))
    ELSE LET half == Driven(g, dots \div 2)
         IN  IF half.count = 0 THEN half
             ELSE Driven(half, dots - (dots \div 2))

\* HBLANK, OAM_SEARCH, DATA_TRANSFER, VBLANK
StartDots == {0, 80, 101, 16382}

VramAddresses == {0, 1, 6143, 6144, 8191}
VramValues == {0, 255, 165}

InitVram ==
    /\ gb \in {Driven(ppu_initialize, dots) : dots \in StartDots}
    /\ last = NoLast
    /\ line = LineOff
    /\ frame = FrameOff
    /\ out = NoOut
    /\ drawn = DrawnOff

NextVram ==
    \E address \in VramAddresses, value \in VramValues : WriteVram(address, value)

SpecVram == InitVram /\ [][NextVram]_vars

\* the tiles with a non-zero byte of tile data or a non-zero cached pixel
\* (every other tile is zero in video memory and in the cache)
LiveTiles(g) ==
    {address \div 16 : address \in {a \in DOMAIN g.vram : a < 6144}}
    \cup {cell \div 64 : cell \in DOMAIN g.tile_buffer}

\* C8: from zeroed memory, after any sequence of video-memory writes the
\* tile cache agrees with video memory: cache[t][r][p] is bit 7-p of
\* vram[16t+2r] plus twice bit 7-p of vram[16t+2r+1], for every tile 0..383;
\* and a write at or above 0x1800 leaves the whole cache unchanged.
C8_TileCacheConsistent ==
    /\ LiveTiles(gb) \subseteq 0 .. 383
    /\ \A t \in LiveTiles(gb), r \in 0 .. 7, p \in 0 .. 7 :
          TilePixel(gb, t, r, p) =
             Bit(Rd(gb.vram, 16 * t + 2 * r), 7 - p)
             + 2 * Bit(Rd(gb.vram, 16 * t + 2 * r + 1), 7 - p)
    /\ \A address \in {a \in VramAddresses : a >= 6144}, value \in VramValues :
          ppu_write_vram(Began(gb), address, value).tile_buffer = gb.tile_buffer

\* C8 witness: 255 was written to the odd byte 1 over 165 in byte 0, and row
\* 0 of tile 0 decodes to 3,2,3,2,2,3,2,3.
C8_Witness ==
    /\ last = [op |-> "write_vram", arg |-> <<1, 255>>, pre |-> <<0>>]
    /\ Rd(gb.vram, 0) = 165
    /\ [p \in 0 .. 7 |-> TilePixel(gb, 0, 0, p)]
         = [p \in 0 .. 7 |-> IF p \in {0, 2, 5, 7} THEN 3 ELSE 2]
    /\ Rd(gb.vram, 8191) = 255

(***************************************************************************)
(* SpecRender: one line render.  During the first HBLANK the bus enables   *)
(* the sprites, gives the two object palettes distinct shades for colour   *)
(* 1, fills tile 1 with colour 1 and stores 2..MaxSprites sprites on       *)
(* scanline 1; the machine is then driven to the last dot of the           *)
(* DATA_TRANSFER of scanline 1, and the next dot renders the line.         *)
(***************************************************************************)
MaxSprites == 3

SpriteXs == {12, 16}
SpriteAttributes == {0, 16}

\* Y = 17 covers scanline 1; tile 1
SpriteChoices == {<<17, x, 1, a>> : x \in SpriteXs, a \in SpriteAttributes}

RECURSIVE OamLoaded(_, _, _)
OamLoaded(g, sprites, k) ==
    IF k > Len(sprites) THEN g
    ELSE LET s  == sprites[k]
             g1 == ppu_write_oam(g, (k - 1) * 4, s[1])
             g2 == ppu_write_oam(g1, (k - 1) * 4 + 1, s[2])
             g3 == ppu_write_oam(g2, (k - 1) * 4 + 2, s[3])
             g4 == ppu_write_oam(g3, (k - 1) * 4 + 3, s[4])
         IN  IF g4.count = 0 THEN g4 ELSE OamLoaded(g4, sprites, k + 1)

\* the low bit-plane of rows 0..7 of tile 1 set to 0xFF
RECURSIVE TileLoaded(_, _)
TileLoaded(g, row) ==
    IF row = 8 THEN g
    ELSE LET g1 == ppu_write_vram(g, 16 + 2 * row, 255)
         IN  IF g1.count = 0 THEN g1 ELSE TileLoaded(g1, row + 1)

DotsToRender == 80 + 21 + 42

RenderStart(sprites) ==
    LET g1 == write_obp(ppu_write_lcdc(ppu_initialize, 147), 228, 27)
        g2 == TileLoaded(g1, 0)
        g3 == IF g2.count = 0 THEN g2 ELSE OamLoaded(g2, sprites, 1)
    IN  IF g3.count = 0 THEN g3 ELSE Driven(g3, DotsToRender)

SpriteLists ==
    UNION {[1 .. n -> SpriteChoices] : n \in 2 .. MaxSprites}

InitRender ==
    /\ gb \in {RenderStart(sprites) : sprites \in SpriteLists}
    /\ last = NoLast
    /\ line = LineOff
    /\ frame = FrameOff
    /\ out = NoOut
    /\ drawn = DrawnOff

RenderLine ==
    /\ ppu_get_mode(gb) = GRAPHICS_MODE_DATA_TRANSFER
    /\ gb.count = 1
    /\ Cycle

NextRender == RenderLine

SpecRender == InitRender /\ [][NextRender]_vars

\* the line of row gb.ly has been rendered by the last step
Rendered == ppu_get_mode(gb) = GRAPHICS_MODE_HBLANK /\ gb.count = PPU_HBLANK_LENGTH

\* object-memory entry i: its bytes, and whether it covers scanline ly
OamEntry(g, i) ==
    <<Rd(g.oam, 4 * i), Rd(g.oam, 4 * i + 1), Rd(g.oam, 4 * i + 2),
      Rd(g.oam, 4 * i + 3)>>

OnLine(g, i) ==
    LET top == OamEntry(g, i)[1] - 16
    IN  top <= g.ly /\ g.ly < top + SpriteSize(g)

\* the colour index entry i shows at display column c (0 where it shows none)
SpriteColour(g, i, c) ==
    LET e == OamEntry(g, i)
        column == c - (e[2] - 8)
        row == g.ly - (e[1] - 16)
    IN  IF column \notin 0 .. 7 THEN 0
        ELSE TilePixel(g, e[3],
                       IF Test(e[4], SPRITE_FLIP_Y_BIT) THEN 7 - row ELSE row,
                       IF Test(e[4], SPRITE_FLIP_X_BIT) THEN 7 - column ELSE column)

\* the entries on the line that are opaque at column c with the
\* background-priority flag clear
OpaqueAt(g, c) ==
    {i \in 0 .. 39 : /\ OnLine(g, i)
                     /\ SpriteColour(g, i, c) # 0
                     /\ ~Test(OamEntry(g, i)[4], SPRITE_TO_BG_PRIORITY_BIT)}

\* lower X first, then earlier in object memory
Outranks(g, i, j) ==
    \/ OamEntry(g, i)[2] < OamEntry(g, j)[2]
    \/ OamEntry(g, i)[2] = OamEntry(g, j)[2] /\ i <= j

SpriteShade(g, i, c) ==
    PaletteShade(IF Bit(OamEntry(g, i)[4], 4) = 1 THEN g.obp1 ELSE g.obp0,
                 SpriteColour(g, i, c))

\* C9: wherever two or more selected sprites are opaque at a display
\* column, the display buffer holds the shade of the one with the lower X,
\* and among equal X that of the one earlier in object memory.
C9_LowerXThenEarlierWins ==
    Rendered =>
      \A c \in Columns :
         LET S == OpaqueAt(gb, c)
         IN  Cardinality(S) >= 2 =>
               \E i \in S :
                  /\ \A j \in S : Outranks(gb, i, j)
                  /\ Rd(gb.display_buffer, c + gb.ly * GAMEBOY_DISPLAY_WIDTH)
                       = SpriteShade(gb, i, c)

(***************************************************************************)
(* SpecExport: one call of an export routine, with a maximum element count *)
(* below, at or above the routine's full size, on a machine with the LCD   *)
(* on or off and with or without tile data.                                *)
(***************************************************************************)
MaxLength == 20

Lengths == (0 .. MaxLength) \cup {23040, 24576, 65536}

ExportStarts ==
    {ppu_initialize,
     ppu_write_lcdc(ppu_initialize, 17),
     ppu_write_vram(ppu_initialize, 0, 255),
     ppu_write_vram(ppu_write_lcdc(ppu_initialize, 17), 1, 255)}

InitExport ==
    /\ gb \in ExportStarts
    /\ last = NoLast
    /\ line = LineOff
    /\ frame = FrameOff
    /\ out = NoOut
    /\ drawn = DrawnOff

NextExport ==
    \E length \in Lengths :
       \/ ExportDisplay(length)
       \/ ExportBackground(length)
       \/ ExportTileset(length)

SpecExport == InitExport /\ [][NextExport]_vars

FullSize(routine) ==
    CASE routine = "display" -> 160 * 144
      [] routine = "background" -> 256 * 256
      [] routine = "tileset" -> 128 * 192

\* C10: an export routine called with maximum element count n stores only
\* at destination indices strictly below n, and returns the number of
\* elements it stored, which is min(n, full size).
C10_ExportCapped ==
    out.routine # "none" =>
       /\ \A store \in out.stores : store[1] < out.length
       /\ out.ret = Cardinality({store[1] : store \in out.stores})
       /\ out.ret = IF out.length < FullSize(out.routine)
                    THEN out.length ELSE FullSize(out.routine)

(***************************************************************************)
(* Further claims settled under Spec.                                      *)
(***************************************************************************)
IdleDots == 200

\* C18: whenever the LCD-enable bit is clear the scanline index is 0, the
\* mode bits are 0 and the dot counter is 115, and a per-dot advance, or any
\* number of them in a row, changes nothing at all.
C18_LcdOffIdle ==
    ~LcdOn(gb) =>
       /\ gb.ly = 0
       /\ ppu_get_mode(gb) = 0
       /\ gb.count = 115
       /\ ppu_cycle(gb) = gb
       /\ \A dots \in {1, 2, 115, 116, IdleDots} : Driven(gb, dots) = gb

\* C18 witness: the LCD is off with the coincidence enable written and the
\* compare register at 150, and the last operation was not the disabling
\* write: the machine has been stepped while off.
C18_Witness ==
    /\ ~LcdOn(gb)
    /\ last = NoLast
    /\ gb.stat = 64
    /\ gb.lyc = 150
    /\ gb.count = 115

\* C19: the scanline index is in 0..153, the mode is VBLANK exactly when the
\* scanline index is in 144..153, and in OAM_SEARCH, DATA_TRANSFER and HBLANK
\* (so whenever the line renderer runs) it is in 0..143.
C19_LineAndModeAgree ==
    /\ gb.ly \in 0 .. 153
    /\ ppu_get_mode(gb) = GRAPHICS_MODE_VBLANK <=> gb.ly \in 144 .. 153
    /\ ppu_get_mode(gb) \in {GRAPHICS_MODE_OAM_SEARCH, GRAPHICS_MODE_DATA_TRANSFER,
                             GRAPHICS_MODE_HBLANK} => gb.ly \in 0 .. 143
    /\ DOMAIN gb.display_buffer
          \subseteq 0 .. (GAMEBOY_DISPLAY_WIDTH * GAMEBOY_DISPLAY_HEIGHT - 1)

\* C19 witness: the control register was written, LCD kept on, on the last
\* VBLANK line, with the coincidence enable set by a status write.
C19_Witness ==
    /\ last = [op |-> "write_lcdc", arg |-> <<145>>,
               pre |-> <<GRAPHICS_MODE_VBLANK, 153>>]
    /\ gb.ly = 153
    /\ ppu_get_mode(gb) = GRAPHICS_MODE_VBLANK
    /\ Test(gb.stat, STAT_LY_LYC_COMPARSION_ENABLE)

(***************************************************************************)
(* SpecFrame: the machine driven dot by dot with the LCD switched off and  *)
(* on at any dot, and the record of the renderer's calls on.               *)
(***************************************************************************)
InitFrame ==
    /\ gb = ppu_initialize
    /\ last = NoLast
    /\ line = LineOff
    /\ frame = FrameOff
    /\ out = NoOut
    /\ drawn = DrawnOn

NextFrame ==
    \/ Cycle
    \/ \E value \in LcdcValues : WriteLcdc(value)

SpecFrame == InitFrame /\ [][NextFrame]_vars

\* the calls of the renderer for scanline k since the frame began
CallsFor(k) == {i \in 1 .. Len(drawn.lines) : drawn.lines[i] = k}

\* C14: with the LCD on, in every frame (begun at scanline 0 at
\* initialization, at an LCD enable or at the wrap from scanline 153) the
\* renderer is called exactly once for each scanline 0..143, in ascending
\* order: every scanline the frame has passed has been rendered once.
C14_EveryLineDrawnOnce ==
    LcdOn(gb) =>
       /\ \A i, j \in 1 .. Len(drawn.lines) :
             i < j => drawn.lines[i] < drawn.lines[j]
       /\ \A k \in 0 .. 143 : k < gb.ly => Cardinality(CallsFor(k)) = 1

(***************************************************************************)
(* SpecIrq: the machine driven dot by dot, with bus writes to the mode     *)
(* interrupt enables of the status register and to the control register at *)
(* any dot, for scroll-X values of each DATA_TRANSFER length.              *)
(***************************************************************************)
IrqStatValues == {0, 24, 32}
IrqScxValues == {0, 5}

InitIrq ==
    /\ gb \in {write_scx(ppu_initialize, value) : value \in IrqScxValues}
    /\ last = NoLast
    /\ line = LineOff
    /\ frame = FrameOff
    /\ out = NoOut
    /\ drawn = DrawnOff

NextIrq ==
    \/ Cycle
    \/ \E value \in IrqStatValues : WriteStat(value)
    \/ \E value \in LcdcValues : WriteLcdc(value)

SpecIrq == InitIrq /\ [][NextIrq]_vars

\* C12: with the LCD on and the HBLANK enable set, the LCD-status interrupt
\* is requested on the dot that leaves the counter at 1 in DATA_TRANSFER,
\* one dot before the dot that enters HBLANK, and on no other dot by this
\* check; the counter only falls inside a DATA_TRANSFER period, so this is
\* once per period; the dot that enters HBLANK requests nothing, and neither
\* does a write that sets the enable later.
C12_HblankRequestEarly ==
    LET g == Began(gb)
        h == ppu_cycle(g)
    IN  /\ "hblank" \in h.raised <=>
              /\ LcdOn(gb)
              /\ Test(gb.stat, STAT_HBLANK_CHECK_ENABLE)
              /\ ppu_get_mode(gb) = GRAPHICS_MODE_DATA_TRANSFER
              /\ gb.count = 2
        /\ "hblank" \in h.raised =>
              /\ h.count = 1
              /\ ppu_get_mode(h) = GRAPHICS_MODE_DATA_TRANSFER
              /\ Test(h.flags, LCD_STAT_INTERRUPT_BIT)
              /\ ppu_get_mode(ppu_cycle(Began(h))) = GRAPHICS_MODE_HBLANK
        /\ Renders(gb, h) => gb.count = 1 /\ h.raised = {} /\ h.flags = 0
        /\ LcdOn(gb) /\ ppu_get_mode(gb) = GRAPHICS_MODE_DATA_TRANSFER =>
              /\ gb.count \in 1 .. (PPU_DATA_TRANSFER_LENGTH + 2)
              /\ gb.count > 1 =>
                    /\ h.count = gb.count - 1
                    /\ ppu_get_mode(h) = GRAPHICS_MODE_DATA_TRANSFER
        /\ \A value \in IrqStatValues :
              LET written == ppu_write_stat(g, value)
              IN  written.raised = {} /\ written.flags = 0
        /\ "hblank" \in gb.raised =>
              /\ gb.count = 1
              /\ ppu_get_mode(gb) = GRAPHICS_MODE_DATA_TRANSFER
              /\ Test(gb.stat, STAT_HBLANK_CHECK_ENABLE)

\* C12 witness: the request was made on the last scanline, with scroll-X 5,
\* and the counter is at 1 in DATA_TRANSFER.
C12_Witness ==
    /\ gb.raised = {"hblank"}
    /\ gb.flags = LCD_STAT_INTERRUPT_BIT
    /\ gb.count = 1
    /\ ppu_get_mode(gb) = GRAPHICS_MODE_DATA_TRANSFER
    /\ gb.scx = 5
    /\ gb.ly = 143

WindowLines == {0, 1, 143}

\* C13: the VBLANK interrupt is requested on exactly the dots that change
\* the mode from HBLANK to VBLANK (scanline index becoming 144), whatever
\* the status register holds, and on no other dot or write; on that dot the
\* LCD-status interrupt is requested when the VBLANK enable or the
\* OAM_SEARCH enable is set, and the window-line counter becomes 0.
C13_VblankRequestOnEntry ==
    LET g == Began(gb)
        h == ppu_cycle(g)
        entry == /\ ppu_get_mode(gb) = GRAPHICS_MODE_HBLANK
                 /\ ppu_get_mode(h) = GRAPHICS_MODE_VBLANK
    IN  /\ "vblank" \in h.raised <=> entry
        /\ Test(h.flags, VBLANK_INTERRUPT_BIT) <=> entry
        /\ "vblank_stat" \in h.raised <=>
              /\ entry
              /\ \/ Test(gb.stat, STAT_VBLANK_CHECK_ENABLE)
                 \/ Test(gb.stat, STAT_OAM_SEARCH_CHECK_ENABLE)
        /\ "vblank_stat" \in h.raised => Test(h.flags, LCD_STAT_INTERRUPT_BIT)
        /\ entry =>
              /\ gb.ly = 143 /\ h.ly = 144
              /\ \A counter \in WindowLines :
                    ppu_cycle([g EXCEPT !.window_internal_line = counter])
                       .window_internal_line = 0
        /\ \A value \in IrqStatValues :
              ~Test(ppu_write_stat(g, value).flags, VBLANK_INTERRUPT_BIT)
        /\ \A value \in LcdcValues :
              ~Test(ppu_write_lcdc(g, value).flags, VBLANK_INTERRUPT_BIT)
        /\ "vblank" \in gb.raised =>
              /\ gb.ly = 144
              /\ ppu_get_mode(gb) = GRAPHICS_MODE_VBLANK
              /\ gb.count = PPU_VBLANK_LENGTH
              /\ gb.window_internal_line = 0

\* C13 witness: VBLANK was entered with only the OAM_SEARCH enable set, and
\* both interrupts were requested.
C13_Witness ==
    /\ gb.raised = {"vblank", "vblank_stat"}
    /\ gb.flags = VBLANK_INTERRUPT_BIT + LCD_STAT_INTERRUPT_BIT
    /\ gb.ly = 144
    /\ And8(gb.stat, STAT_WRITE_BITS) = STAT_OAM_SEARCH_CHECK_ENABLE

(***************************************************************************)
(* SpecWindow: the machine driven dot by dot, with control-register writes *)
(* that switch the window and the LCD on and off.  The window registers    *)
(* are as initialized (window-Y 0, window-X 0), so the window is rendered  *)
(* on every scanline on which it is enabled.  The writes land on the first *)
(* MaxWriteLine scanlines of a frame and while the window-line counter is  *)
(* below MaxWriteLine, which bounds the counter.                           *)
(***************************************************************************)
MaxWriteLine == 3

WindowLcdcValues == {145, 177, 49}

WriteLcdcEarly(value) ==
    /\ gb.ly < MaxWriteLine
    /\ gb.window_internal_line < MaxWriteLine
    /\ WriteLcdc(value)

NextWindow ==
    \/ Cycle
    \/ \E value \in WindowLcdcValues : WriteLcdcEarly(value)

SpecWindow == Init /\ [][NextWindow]_vars

\* the window is rendered on the scanline: window enable set, window-Y <=
\* scanline, window-X - 7 <= 0xA6
WindowRendered(g) ==
    /\ Bit(g.lcdc, 5) = 1
    /\ g.wy <= g.ly
    /\ g.wx - 7 <= 166

C20_WindowLineBounded ==
    LcdOn(gb) =>
       /\ gb.window_internal_line <= 144
       /\ ppu_get_mode(gb) # GRAPHICS_MODE_VBLANK =>
             gb.window_internal_line <= gb.ly + 1

(***************************************************************************)
(* SpecWindowRender: one line render with the window on.  During the first *)
(* HBLANK the bus enables the window on map 2, makes the background        *)
(* palette the identity, sets the window position and the scroll           *)
(* registers, gives tile 1 colours 3 and 2 in its left and right halves    *)
(* (swapped on odd rows) and fills the first row of map 2 with tile 1; the *)
(* background stays tile 0, colour 0.  The machine is then driven to the   *)
(* last dot of the DATA_TRANSFER of scanline 1 or 2, and the next dot      *)
(* renders the line.                                                       *)
(***************************************************************************)
RECURSIVE VramLoaded(_, _, _)
VramLoaded(g, writes, k) ==
    IF k > Len(writes) THEN g
    ELSE LET g1 == ppu_write_vram(g, writes[k][1], writes[k][2])
         IN  IF g1.count = 0 THEN g1 ELSE VramLoaded(g1, writes, k + 1)

WindowTileWrites ==
    [k \in 1 .. 16 |->
       <<16 + (k - 1),
         IF (k - 1) % 2 = 1 THEN 255
         ELSE IF ((k - 1) \div 2) % 2 = 0 THEN 240 ELSE 15>>]

WindowMapWrites == [k \in 1 .. 32 |-> <<PPU_BACKGROUND2_START + (k - 1), 1>>]

WxValues == {0, 3, 7, 17, 166, 173}
WindowScxValues == {0, 3, 250}
WindowScyValues == {0, 5}
WindowStartLines == {1, 2}

WindowStart(wx, scx, scy, lines) ==
    LET g1 == write_bgp(write_window(write_scroll(
                 ppu_write_lcdc(ppu_initialize, 241), scy, scx), 0, wx), 228)
        g2 == VramLoaded(g1, WindowTileWrites \o WindowMapWrites, 1)
    IN  IF g2.count = 0 THEN g2
        ELSE Driven(g2, 80 + (lines - 1) * 114 + PPU_OAM_SEARCH_LENGTH
                        + PPU_DATA_TRANSFER_LENGTH + ScxOffset(g2) - 1)

InitWindowRender ==
    /\ gb \in {WindowStart(wx, scx, scy, lines) :
                 wx \in WxValues, scx \in WindowScxValues,
                 scy \in WindowScyValues, lines \in WindowStartLines}
    /\ last = NoLast
    /\ line = LineOff
    /\ frame = FrameOff
    /\ out = NoOut
    /\ drawn = DrawnOff

NextWindowRender == RenderLine

SpecWindowRender == InitWindowRender /\ [][NextWindowRender]_vars

\* the last step rendered row gb.ly with the window on it
WindowRowRendered ==
    /\ ppu_get_mode(gb) = GRAPHICS_MODE_HBLANK
    /\ gb.count = PPU_HBLANK_LENGTH - ScxOffset(gb)
    /\ WindowRendered(gb)

\* the shade of the window's pixel at its own column and row
WindowShade(g, column, row) ==
    LET map == IF Bit(g.lcdc, 6) = 1 THEN 7168 ELSE 6144
        raw == Rd(g.vram, map + (column \div 8) + (row \div 8) * 32)
        tile == IF Bit(g.lcdc, 4) = 1 \/ raw >= 128 THEN raw ELSE raw + 256
    IN  PaletteShade(g.bgp, TilePixel(g, tile, row % 8, column % 8))

\* the window-line counter the render found
CounterBefore == gb.window_internal_line - 1

\* C15: every display column i the window overwrites holds the window's
\* pixel at column i - (window-X - 7) and at the row given by the
\* window-line counter, whatever scroll-X and scroll-Y are.
C15_WindowIgnoresScroll ==
    WindowRowRendered =>
       \A i \in Columns :
          i >= (gb.wx - 7) % 256 =>
             DisplayRow(gb)[i] = WindowShade(gb, i - (gb.wx - 7), CounterBefore)

\* the shades found in the window's row
WindowShades == {WindowShade(gb, column, CounterBefore) : column \in 0 .. 255}

\* C16: when the window is rendered on a scanline, every display column
\* from max(0, window-X - 7) through 159 holds window content; for window-X
\* in 0..6 that is the whole row.
C16_WindowFromClampedStart ==
    WindowRowRendered =>
       \A i \in Columns :
          i >= (IF gb.wx - 7 < 0 THEN 0 ELSE gb.wx - 7) =>
             DisplayRow(gb)[i] \in WindowShades

(***************************************************************************)
(* SpecSprites: one line render with up to MaxEntries object-memory        *)
(* entries in use.  During the first HBLANK the bus enables the sprites    *)
(* at height 8 or 16, fills tiles 2 and 3 with colour 1 and stores the     *)
(* entries: all at Y = 17 (covering scanline 1 at either height) but at    *)
(* most one, which is at Y = 9 (covering it at height 16 only) or at       *)
(* Y = 40 (not covering it).  Entries 0..9 sit side by side from column 8, *)
(* the later ones side by side from a column chosen left of, among or      *)
(* right of them.  All entries use tile 2, palette 0 and no flags, so a    *)
(* drawn sprite leaves the same shade whatever the order of drawing.       *)
(***************************************************************************)
MaxEntries == 12

SpriteLcdcValues == {147, 151}

LateXs == {4, 128, 160}

GapYs == {9, 40}

\* the low bit-plane of rows 0..7 of tiles 2 and 3 set to 0xFF
SpriteTileWrites == [k \in 1 .. 16 |-> <<32 + 2 * (k - 1), 255>>]

\* entry k (from 0) of a configuration: Y, X, tile, attributes
EntryOf(k, gap, gapY, lateX) ==
    <<IF k = gap THEN gapY ELSE 17,
      IF k < 10 THEN 16 + 8 * k ELSE lateX + 8 * (k - 10),
      2, 0>>

SpritesStart(value, n, gap, gapY, lateX) ==
    LET g1 == write_obp(ppu_write_lcdc(ppu_initialize, value), 228, 27)
        g2 == VramLoaded(g1, SpriteTileWrites, 1)
        g3 == IF g2.count = 0 THEN g2
              ELSE OamLoaded(g2, [k \in 1 .. n |->
                                    EntryOf(k - 1, gap, gapY, lateX)], 1)
    IN  IF g3.count = 0 THEN g3 ELSE Driven(g3, DotsToRender)

InitSprites ==
    /\ gb \in {SpritesStart(value, n, gap, gapY, lateX) :
                 value \in SpriteLcdcValues,
                 n \in (MaxEntries - 4) .. MaxEntries,
                 gap \in 0 .. MaxEntries, gapY \in GapYs, lateX \in LateXs}
    /\ last = NoLast
    /\ line = LineOff
    /\ frame = FrameOff
    /\ out = NoOut
    /\ drawn = DrawnOff

NextSprites == RenderLine

SpecSprites == InitSprites /\ [][NextSprites]_vars

\* the entries whose vertical span covers ly, and those of them with fewer
\* than 10 such entries before them
Covering(g) == {i \in 0 .. 39 : OnLine(g, i)}

FirstTen(g) ==
    LET S == Covering(g)
    IN  {i \in S : Cardinality({j \in S : j < i}) < 10}

\* the display columns entry i spans
SpanOf(g, i) == {c \in Columns : c - (OamEntry(g, i)[2] - 8) \in 0 .. 7}

\* FirstTen in ascending entry order
RECURSIVE Ascending(_, _)
Ascending(g, S) ==
    IF S = {} THEN << >>
    ELSE LET i == CHOOSE m \in S : \A j \in S : m <= j
         IN  <<OamEntry(g, i)>> \o Ascending(g, S \ {i})

\* C17: on a rendered scanline the selected sprites are the first 10 (or
\* all, if fewer) entries in ascending entry order whose vertical span covers
\* the scanline, and a display cell holds a sprite's shade exactly where one
\* of these spans it: an entry that covers the scanline after 10 earlier ones
\* changes no cell.
C17_FirstTenDrawn ==
    Rendered =>
      LET F == FirstTen(gb)
          spanned == UNION {SpanOf(gb, i) : i \in F}
      IN  /\ Cardinality(F) <= 10
          /\ SelectSprites(gb, 0, << >>) = Ascending(gb, F)
          /\ \A c \in Columns :
                DisplayRow(gb)[c] = IF c \in spanned
                                    THEN PaletteShade(gb.obp0, 1)
                                    ELSE PaletteShade(gb.bgp, 0)

\* a line rendered at height 16 with 11 or more covering entries, the entry
\* at Y = 9 among the first 10, and a later one on screen leaving its
\* columns untouched
C17_Witness ==
    /\ Rendered
    /\ SpriteSize(gb) = 16
    /\ Cardinality(Covering(gb)) >= 11
    /\ \E i \in FirstTen(gb) : OamEntry(gb, i)[1] = 9
    /\ \E i \in Covering(gb) \ FirstTen(gb) :
          /\ SpanOf(gb, i) # {}
          /\ \A c \in SpanOf(gb, i) : DisplayRow(gb)[c] = PaletteShade(gb.bgp, 0)
    /\ \E c \in Columns : DisplayRow(gb)[c] = PaletteShade(gb.obp0, 1)

====
